---- MODULE Spec2Model ----
(***************************************************************************)
(* Model of the stormd router (src/src/stormd/service.rs) and of the       *)
(* extension protocol it bridges (src/ext/src/messages.rs).                *)
(*                                                                         *)
(* The router owns one piece of state, Runtime::registered_apps.  Each     *)
(* call of Runtime::handle receives one (bus, request, source) event and   *)
(* answers with a Result and zero or more sends on the ESB endpoints.      *)
(***************************************************************************)
EXTENDS Integers, Sequences, FiniteSets, TLC

(***************************************************************************)
(* Bounds of the model.                                                    *)
(***************************************************************************)
NumApps == 2
NumPeers == 2
NumData == 1
MaxPending == 2

StormApps == 1..NumApps
NodeIds == 1..NumPeers
Data == 1..NumData
Unit == 0

(***************************************************************************)
(* ServiceBus and ServiceId (the source / destination of a bus event).     *)
(***************************************************************************)
ServiceBus == {"Storm", "Ctl", "Msg", "Rpc"}

Peer(n) == [k |-> "Peer", id |-> n]
StormApp(a) == [k |-> "StormApp", id |-> a]
Client(c) == [k |-> "Client", id |-> c]
Stormd == [k |-> "Stormd", id |-> 0]

ServiceId ==
    {Peer(n) : n \in NodeIds} \cup {StormApp(a) : a \in StormApps}
        \cup {Client(1), Stormd}

(***************************************************************************)
(* ExtMsg: RegisterApp(StormApp) and seven cases carrying AddressedMsg.    *)
(***************************************************************************)
AddressedCases ==
    {"ListTopics", "Topics", "ProposeTopic", "Post", "Read", "Decline", "Accept"}

DataOf(case) == IF case = "ListTopics" THEN {Unit} ELSE Data

AddressedMsg(remote_id, data) == [remote_id |-> remote_id, data |-> data]

RegisterApp(a) == [t |-> "RegisterApp", app |-> a]

ExtCase(c, am) == [t |-> c, am |-> am]

ExtMsg ==
    {RegisterApp(a) : a \in StormApps}
        \cup UNION {{ExtCase(c, AddressedMsg(n, d)) : n \in NodeIds, d \in DataOf(c)} :
                        c \in AddressedCases}

(***************************************************************************)
(* storm::p2p::Messages, the peer-wire protocol carried in the payload of  *)
(* a Bifrost message.                                                      *)
(***************************************************************************)
AppCases ==
    {"ListTopics", "AppTopics", "ProposeTopic", "Post", "Read", "Decline", "Accept"}

BulkCases == {"PullContainer", "PushContainer", "Reject", "PullChunk", "PushChunk"}

WireDataOf(case) == IF case = "ListTopics" THEN {Unit} ELSE Data

AppMsg(app, data) == [app |-> app, data |-> data]

ListApps == [t |-> "ListApps"]
ActiveApps(apps) == [t |-> "ActiveApps", apps |-> apps]
P2pCase(c, am) == [t |-> c, am |-> am]
Bulk(c) == [t |-> c]

Messages ==
    {ListApps} \cup {ActiveApps(s) : s \in SUBSET StormApps}
        \cup UNION {{P2pCase(c, AppMsg(a, d)) : a \in StormApps, d \in WireDataOf(c)} :
                        c \in AppCases}
        \cup {Bulk(c) : c \in BulkCases}

(***************************************************************************)
(* The payload codec: a payload is the sequence of the case's wire name    *)
(* followed by its fields.  A payload of an unknown case, or an empty      *)
(* one, fails to unmarshall.                                               *)
(***************************************************************************)
Marshall(m) ==
    IF m.t = "ActiveApps" THEN <<m.t, m.apps>>
    ELSE IF m.t \in AppCases THEN <<m.t, m.am.app, m.am.data>>
    ELSE <<m.t>>

Garbage == {<<>>, <<"Unknown">>}

Payloads == {Marshall(m) : m \in Messages} \cup Garbage

STORM_P2P_UNMARSHALLER(payload) ==
    IF Len(payload) = 0 THEN [ok |-> FALSE]
    ELSE IF payload[1] = "ListApps" /\ Len(payload) = 1
        THEN [ok |-> TRUE, msg |-> ListApps]
    ELSE IF payload[1] = "ActiveApps" /\ Len(payload) = 2
        THEN [ok |-> TRUE, msg |-> ActiveApps(payload[2])]
    ELSE IF payload[1] \in AppCases /\ Len(payload) = 3
        THEN [ok |-> TRUE, msg |-> P2pCase(payload[1], AppMsg(payload[2], payload[3]))]
    ELSE IF payload[1] \in BulkCases /\ Len(payload) = 1
        THEN [ok |-> TRUE, msg |-> Bulk(payload[1])]
    ELSE [ok |-> FALSE]

(***************************************************************************)
(* BusMsg: one message family per bus.                                     *)
(***************************************************************************)
BifrostMessage(app, payload) == [t |-> "Message", app |-> app, payload |-> payload]
BifrostPing == [t |-> "Ping"]

LnMsg ==
    {BifrostMessage("Storm", p) : p \in Payloads}
        \cup {BifrostMessage("Other", <<"Unknown">>), BifrostPing}

CtlMsg == {[t |-> "Hello"], [t |-> "Other"]}

RpcMsg == {[t |-> "Request"]}

BusMsg_Bifrost(m) == [fam |-> "Bifrost", m |-> m]
BusMsg_Ctl(m) == [fam |-> "Ctl", m |-> m]
BusMsg_Storm(m) == [fam |-> "Storm", m |-> m]
BusMsg_Rpc(m) == [fam |-> "Rpc", m |-> m]

BusMsg ==
    {BusMsg_Bifrost(m) : m \in LnMsg} \cup {BusMsg_Ctl(m) : m \in CtlMsg}
        \cup {BusMsg_Storm(m) : m \in ExtMsg} \cup {BusMsg_Rpc(m) : m \in RpcMsg}

(***************************************************************************)
(* Display of a message, as the error constructors record it.  ExtMsg      *)
(* follows its #[display(...)] attributes; AddressedMsg prints             *)
(* "remote_id, data".                                                      *)
(***************************************************************************)
AddressedMsg_fmt(am) == <<am.remote_id, am.data>>

ExtMsg_fmt(m) ==
    CASE m.t = "RegisterApp" -> <<"register_app", m.app>>
      [] m.t = "ListTopics" -> <<"list_topics()">>
      [] m.t = "Topics" -> <<"topics(...)">>
      [] m.t = "ProposeTopic" -> <<"propose_topic(...)">>
      [] m.t = "Post" -> <<"post_received">> \o AddressedMsg_fmt(m.am)
      [] m.t = "Read" -> <<"post_retrieve">> \o AddressedMsg_fmt(m.am)
      [] m.t = "Decline" -> <<"decline">> \o AddressedMsg_fmt(m.am)
      [] m.t = "Accept" -> <<"accept">> \o AddressedMsg_fmt(m.am)

LnMsg_fmt(m) == <<"bifrost_" \o m.t>>
CtlMsg_fmt(m) == <<"ctl_" \o m.t>>
RpcMsg_fmt(m) == <<"rpc_" \o m.t>>

BusMsg_fmt(request) ==
    CASE request.fam = "Storm" -> ExtMsg_fmt(request.m)
      [] request.fam = "Bifrost" -> LnMsg_fmt(request.m)
      [] request.fam = "Ctl" -> CtlMsg_fmt(request.m)
      [] request.fam = "Rpc" -> RpcMsg_fmt(request.m)

(***************************************************************************)
(* Results of a handler: Ok(()) or a DaemonError.                          *)
(***************************************************************************)
Ok == [ok |-> TRUE]

wrong_esb_msg(bus, msg) ==
    [ok |-> FALSE, err |-> "WrongBus", bus |-> bus, msg |-> msg]

wrong_esb_msg_source(bus, msg, source) ==
    [ok |-> FALSE, err |-> "WrongBusSource", bus |-> bus, msg |-> msg, source |-> source]

UnmarshallError == [ok |-> FALSE, err |-> "Unmarshall"]

EsbError(bus, dest) == [ok |-> FALSE, err |-> "Esb", bus |-> bus, dest |-> dest]

(***************************************************************************)
(* ExtMsg::remote_id and ExtMsg::p2p_message.  Both are unreachable!() on  *)
(* RegisterApp.                                                            *)
(***************************************************************************)
Unreachable == [panic |-> TRUE]
Returned(v) == [panic |-> FALSE, v |-> v]

remote_id(self) ==
    IF self.t = "RegisterApp" THEN Unreachable ELSE Returned(self.am.remote_id)

p2p_message_topics_as_list(self, app) ==
    CASE self.t = "RegisterApp" -> Unreachable
      [] self.t = "ListTopics" ->
            Returned(P2pCase("ListTopics", AppMsg(app, self.am.data)))
      [] self.t = "Topics" ->
            Returned(P2pCase("ListTopics", AppMsg(app, self.am.data)))
      [] self.t = "ProposeTopic" ->
            Returned(P2pCase("ProposeTopic", AppMsg(app, self.am.data)))
      [] self.t = "Post" -> Returned(P2pCase("Post", AppMsg(app, self.am.data)))
      [] self.t = "Read" -> Returned(P2pCase("Read", AppMsg(app, self.am.data)))
      [] self.t = "Decline" ->
            Returned(P2pCase("Decline", AppMsg(app, self.am.data)))
      [] self.t = "Accept" ->
            Returned(P2pCase("Accept", AppMsg(app, self.am.data)))

p2p_message_decline_as_accept(self, app) ==
    CASE self.t = "RegisterApp" -> Unreachable
      [] self.t = "ListTopics" ->
            Returned(P2pCase("ListTopics", AppMsg(app, self.am.data)))
      [] self.t = "Topics" ->
            Returned(P2pCase("AppTopics", AppMsg(app, self.am.data)))
      [] self.t = "ProposeTopic" ->
            Returned(P2pCase("ProposeTopic", AppMsg(app, self.am.data)))
      [] self.t = "Post" -> Returned(P2pCase("Post", AppMsg(app, self.am.data)))
      [] self.t = "Read" -> Returned(P2pCase("Read", AppMsg(app, self.am.data)))
      [] self.t = "Decline" ->
            Returned(P2pCase("Accept", AppMsg(app, self.am.data)))
      [] self.t = "Accept" ->
            Returned(P2pCase("Accept", AppMsg(app, self.am.data)))

p2p_message(self, app) ==
    CASE self.t = "RegisterApp" -> Unreachable
      [] self.t = "ListTopics" ->
            Returned(P2pCase("ListTopics", AppMsg(app, self.am.data)))
      [] self.t = "Topics" ->
            Returned(P2pCase("AppTopics", AppMsg(app, self.am.data)))
      [] self.t = "ProposeTopic" ->
            Returned(P2pCase("ProposeTopic", AppMsg(app, self.am.data)))
      [] self.t = "Post" -> Returned(P2pCase("Post", AppMsg(app, self.am.data)))
      [] self.t = "Read" -> Returned(P2pCase("Read", AppMsg(app, self.am.data)))
      [] self.t = "Decline" ->
            Returned(P2pCase("Decline", AppMsg(app, self.am.data)))
      [] self.t = "Accept" ->
            Returned(P2pCase("Accept", AppMsg(app, self.am.data)))

(***************************************************************************)
(* AddressedMsg::with: the payload of the peer-wire message, the remote id *)
(* of the peer it arrived from.                                            *)
(***************************************************************************)
AddressedMsg_with_from_payload(app_msg, remote_peer) ==
    [remote_id |-> app_msg.app, data |-> app_msg.data]

AddressedMsg_with(app_msg, remote_peer) ==
    [remote_id |-> remote_peer, data |-> app_msg.data]

(***************************************************************************)
(* StormExtMsg::storm_ext_msg, the inbound mapping of the bridge: Ok((app, *)
(* ExtMsg)) for the application cases, Err(message) for the rest.          *)
(***************************************************************************)
ExtCaseOf(wire) == IF wire = "AppTopics" THEN "Topics" ELSE wire

storm_ext_msg(mesg, remote) ==
    IF mesg.t \in AppCases
    THEN [ok |-> TRUE, app |-> mesg.am.app,
          msg |-> ExtCase(ExtCaseOf(mesg.t), AddressedMsg_with(mesg.am, remote))]
    ELSE [ok |-> FALSE, err |-> mesg]

(***************************************************************************)
(* Responder::send_p2p and Responder::send_ext.  endpoints is the state of *)
(* the transport: TRUE when the send goes through, FALSE when it fails.    *)
(* call is the send issued, res what the send returns.                     *)
(***************************************************************************)
send_p2p(endpoints, remote, message) ==
    [call |-> [bus |-> "Msg", dest |-> Peer(remote), msg |-> message],
     res |-> IF endpoints THEN Ok ELSE EsbError("Msg", Peer(remote))]

send_ext(endpoints, app, message) ==
    [call |-> [bus |-> "Storm", dest |-> StormApp(app), msg |-> message],
     res |-> IF endpoints THEN Ok ELSE EsbError("Storm", StormApp(app))]

(***************************************************************************)
(* What one call of a handler does: the Result it returns, the sends it    *)
(* issued in order, registered_apps after the call, and whether it hit an  *)
(* unreachable!().                                                         *)
(***************************************************************************)
Outcome(res, sends, apps) ==
    [res |-> res, sends |-> sends, apps |-> apps, panic |-> FALSE]

Panic(apps) ==
    [res |-> [ok |-> FALSE, err |-> "unreachable!"], sends |-> <<>>, apps |-> apps,
     panic |-> TRUE]

(***************************************************************************)
(* handle_p2p, arm Err(Messages::ListApps): reply to the requesting peer   *)
(* with a clone of registered_apps.                                        *)
(***************************************************************************)
reply_list_apps_to_first(apps, endpoints, remote) ==
    LET s == send_p2p(endpoints, 1, ActiveApps(apps)) IN
    Outcome(s.res, <<s.call>>, apps)

reply_list_apps_default(apps, endpoints, remote) ==
    LET s == send_p2p(endpoints, remote, ActiveApps({})) IN
    Outcome(s.res, <<s.call>>, apps)

reply_list_apps(apps, endpoints, remote) ==
    LET s == send_p2p(endpoints, remote, ActiveApps(apps)) IN
    Outcome(s.res, <<s.call>>, apps)

(***************************************************************************)
(* handle_p2p, arms of the messages storm_ext_msg hands back: ListApps is  *)
(* answered, ActiveApps and the transfer messages are accepted and left.   *)
(***************************************************************************)
process_local_reject_rest(apps, endpoints, remote, mesg) ==
    IF mesg.t = "ListApps"
    THEN reply_list_apps(apps, endpoints, remote)
    ELSE Outcome(wrong_esb_msg("Msg", <<"p2p_" \o mesg.t>>), <<>>, apps)

process_local(apps, endpoints, remote, mesg) ==
    IF mesg.t = "ListApps"
    THEN reply_list_apps(apps, endpoints, remote)
    ELSE Outcome(Ok, <<>>, apps)

handle_p2p_skip_undecodable(apps, endpoints, remote, message) ==
    IF message.t = "Message" /\ message.app = "Storm"
    THEN LET decoded == STORM_P2P_UNMARSHALLER(message.payload) IN
         IF ~decoded.ok THEN Outcome(Ok, <<>>, apps)
         ELSE LET ext == storm_ext_msg(decoded.msg, remote) IN
              IF ext.ok
              THEN LET s == send_ext(endpoints, ext.app, ext.msg) IN
                   Outcome(s.res, <<s.call>>, apps)
              ELSE process_local(apps, endpoints, remote, ext.err)
    ELSE Outcome(wrong_esb_msg("Rpc", LnMsg_fmt(message)), <<>>, apps)

handle_p2p(apps, endpoints, remote, message) ==
    IF message.t = "Message" /\ message.app = "Storm"
    THEN LET decoded == STORM_P2P_UNMARSHALLER(message.payload) IN
         IF ~decoded.ok THEN Outcome(UnmarshallError, <<>>, apps)
         ELSE LET ext == storm_ext_msg(decoded.msg, remote) IN
              IF ext.ok
              THEN LET s == send_ext(endpoints, ext.app, ext.msg) IN
                   Outcome(s.res, <<s.call>>, apps)
              ELSE process_local(apps, endpoints, remote, ext.err)
    ELSE Outcome(wrong_esb_msg("Rpc", LnMsg_fmt(message)), <<>>, apps)

handle_rpc_silent(apps, endpoints, client_id, message) ==
    Outcome(Ok, <<>>, apps)

handle_rpc(apps, endpoints, client_id, message) ==
    Outcome(wrong_esb_msg("Rpc", RpcMsg_fmt(message)), <<>>, apps)

handle_ctl_accept_all(apps, endpoints, source, message) ==
    Outcome(Ok, <<>>, apps)

handle_ctl(apps, endpoints, source, message) ==
    IF message.t = "Hello"
    THEN Outcome(Ok, <<>>, apps)
    ELSE Outcome(wrong_esb_msg("Ctl", CtlMsg_fmt(message)), <<>>, apps)

(***************************************************************************)
(* handle_app, arm ExtMsg::RegisterApp(app_id): insert app_id when it is   *)
(* the selector of the source, WrongBusSource otherwise.                   *)
(***************************************************************************)
register_app_no_check(apps, app, message) ==
    Outcome(Ok, <<>>, apps \cup {message.app})

register_app_insert_first(apps, app, message) ==
    IF app = message.app
    THEN Outcome(Ok, <<>>, apps \cup {message.app})
    ELSE Outcome(wrong_esb_msg_source("Storm", ExtMsg_fmt(message),
                                      StormApp(message.app)), <<>>,
                 apps \cup {message.app})

register_app_reject_dup(apps, app, message) ==
    IF app = message.app /\ message.app \notin apps
    THEN Outcome(Ok, <<>>, apps \cup {message.app})
    ELSE Outcome(wrong_esb_msg_source("Storm", ExtMsg_fmt(message),
                                      StormApp(message.app)), <<>>, apps)

register_app_replace(apps, app, message) ==
    IF app = message.app
    THEN Outcome(Ok, <<>>, {message.app})
    ELSE Outcome(wrong_esb_msg_source("Storm", ExtMsg_fmt(message),
                                      StormApp(message.app)), <<>>, apps)

register_app(apps, app, message) ==
    IF app = message.app
    THEN Outcome(Ok, <<>>, apps \cup {message.app})
    ELSE Outcome(wrong_esb_msg_source("Storm", ExtMsg_fmt(message),
                                      StormApp(message.app)), <<>>, apps)

(***************************************************************************)
(* handle_app, arm forward: send the peer-wire form of the message to the  *)
(* remote id it carries.                                                   *)
(***************************************************************************)
forward_app_registered_only(apps, endpoints, app, message) ==
    LET dest == remote_id(message)
        wire == p2p_message(message, app) IN
    IF dest.panic \/ wire.panic THEN Panic(apps)
    ELSE IF app \notin apps
    THEN Outcome(wrong_esb_msg_source("Storm", ExtMsg_fmt(message), StormApp(app)),
                 <<>>, apps)
    ELSE LET s == send_p2p(endpoints, dest.v, wire.v) IN
         Outcome(s.res, <<s.call>>, apps)

forward_app(apps, endpoints, app, message) ==
    LET dest == remote_id(message)
        wire == p2p_message(message, app) IN
    IF dest.panic \/ wire.panic THEN Panic(apps)
    ELSE LET s == send_p2p(endpoints, dest.v, wire.v) IN
         Outcome(s.res, <<s.call>>, apps)

handle_app_guarded_arm(apps, endpoints, app, message) ==
    IF message.t = "RegisterApp" /\ app = message.app
    THEN register_app(apps, app, message)
    ELSE forward_app(apps, endpoints, app, message)

handle_app(apps, endpoints, app, message) ==
    IF message.t = "RegisterApp"
    THEN register_app(apps, app, message)
    ELSE forward_app(apps, endpoints, app, message)

handle_any_source(apps, endpoints, bus_id, source, request) ==
    CASE bus_id = "Msg" /\ request.fam = "Bifrost" /\ source.k = "Peer" ->
            handle_p2p(apps, endpoints, source.id, request.m)
      [] bus_id = "Ctl" /\ request.fam = "Ctl" ->
            handle_ctl(apps, endpoints, source, request.m)
      [] bus_id = "Storm" /\ request.fam = "Storm" ->
            handle_app(apps, endpoints, source.id, request.m)
      [] bus_id = "Rpc" /\ request.fam = "Rpc" /\ source.k = "Client" ->
            handle_rpc(apps, endpoints, source.id, request.m)
      [] OTHER -> Outcome(wrong_esb_msg(bus_id, BusMsg_fmt(request)), <<>>, apps)

handle(apps, endpoints, bus_id, source, request) ==
    CASE bus_id = "Msg" /\ request.fam = "Bifrost" /\ source.k = "Peer" ->
            handle_p2p(apps, endpoints, source.id, request.m)
      [] bus_id = "Ctl" /\ request.fam = "Ctl" ->
            handle_ctl(apps, endpoints, source, request.m)
      [] bus_id = "Storm" /\ request.fam = "Storm" /\ source.k = "StormApp" ->
            handle_app(apps, endpoints, source.id, request.m)
      [] bus_id = "Rpc" /\ request.fam = "Rpc" /\ source.k = "Client" ->
            handle_rpc(apps, endpoints, source.id, request.m)
      [] OTHER -> Outcome(wrong_esb_msg(bus_id, BusMsg_fmt(request)), <<>>, apps)

handle_err_propagate(error) == error

handle_err(error) == Ok

(***************************************************************************)
(* Bus events.  An event is what esb::Handler::handle receives: the bus it *)
(* arrived on, its source and the request.  Events of the four dispatch    *)
(* rows carry every message of the row's family; events that match no row  *)
(* carry the messages of MisroutedMsg.                                     *)
(***************************************************************************)
Event(bus, source, request) == [bus |-> bus, source |-> source, request |-> request]

Matched(ev) ==
    \/ ev.bus = "Msg" /\ ev.request.fam = "Bifrost" /\ ev.source.k = "Peer"
    \/ ev.bus = "Ctl" /\ ev.request.fam = "Ctl"
    \/ ev.bus = "Storm" /\ ev.request.fam = "Storm" /\ ev.source.k = "StormApp"
    \/ ev.bus = "Rpc" /\ ev.request.fam = "Rpc" /\ ev.source.k = "Client"

MisroutedMsg ==
    {BusMsg_Storm(RegisterApp(a)) : a \in StormApps}
        \cup {BusMsg_Storm(ExtCase("Accept", AddressedMsg(n, d))) : n \in NodeIds, d \in Data}
        \cup {BusMsg_Bifrost(BifrostMessage("Storm", Marshall(ListApps))),
              BusMsg_Bifrost(BifrostMessage("Storm", Marshall(P2pCase("Post", AppMsg(1, 1))))),
              BusMsg_Bifrost(BifrostPing)}
        \cup {BusMsg_Ctl(m) : m \in CtlMsg} \cup {BusMsg_Rpc(m) : m \in RpcMsg}

Events ==
    {ev \in [bus : ServiceBus, source : ServiceId, request : BusMsg] :
        Matched(ev) \/ ev.request \in MisroutedMsg}

IsRegistration(ev) ==
    /\ ev.bus = "Storm" /\ ev.request.fam = "Storm" /\ ev.source.k = "StormApp"
    /\ ev.request.m.t = "RegisterApp"

IsSelfRegistration(ev) ==
    IsRegistration(ev) /\ ev.request.m.app = ev.source.id

IsListApps(ev) ==
    /\ ev.bus = "Msg" /\ ev.request.fam = "Bifrost" /\ ev.source.k = "Peer"
    /\ ev.request.m = BifrostMessage("Storm", Marshall(ListApps))

IsForward(ev) ==
    /\ ev.bus = "Storm" /\ ev.request.fam = "Storm" /\ ev.source.k = "StormApp"
    /\ ev.request.m.t # "RegisterApp"

(***************************************************************************)
(* Events of the runs with bus queues (SpecBus): registrations, matching   *)
(* and not, "list apps" requests, and one event of each other row.         *)
(***************************************************************************)
BusEvents ==
    {Event("Storm", StormApp(a), BusMsg_Storm(RegisterApp(b))) : a, b \in StormApps}
        \cup {Event("Msg", Peer(n), BusMsg_Bifrost(BifrostMessage("Storm", Marshall(ListApps)))) :
                n \in NodeIds}
        \cup {Event("Storm", StormApp(1), BusMsg_Storm(ExtCase("Accept", AddressedMsg(1, 1)))),
              Event("Ctl", Stormd, BusMsg_Ctl([t |-> "Hello"])),
              Event("Rpc", Client(1), BusMsg_Rpc([t |-> "Request"]))}

(***************************************************************************)
(* State.                                                                  *)
(*   registered_apps  Runtime::registered_apps                             *)
(*   running          the controller loop is alive                         *)
(*   inbox            events delivered to each bus and not yet handled     *)
(*   last             the event handled last, the transport state its      *)
(*                    sends met (TRUE when it sent nothing), the Result    *)
(*                    and the sends of the call                            *)
(*   repeat           the event handled last is the one handled before it  *)
(*   self_registered  history: selectors S of the handled events           *)
(*                    RegisterApp(S) from StormApp(S) on the Storm bus     *)
(*   ref_apps         history: registered_apps of the run that receives    *)
(*                    the same events without those that failed            *)
(***************************************************************************)
VARIABLES registered_apps, running, inbox, last, repeat, self_registered, ref_apps

vars == <<registered_apps, running, inbox, last, repeat, self_registered, ref_apps>>

NoEvent == Event("None", Stormd, [fam |-> "None"])

Init ==
    /\ registered_apps = {}
    /\ running = TRUE
    /\ inbox = [b \in ServiceBus |-> <<>>]
    /\ last = [ev |-> NoEvent, endpoints |-> TRUE, res |-> Ok, sends |-> <<>>]
    /\ repeat = FALSE
    /\ self_registered = {}
    /\ ref_apps = {}

(***************************************************************************)
(* One turn of the controller loop on event ev: Runtime::handle, and       *)
(* Runtime::handle_err when it returned an error.  The loop goes on unless *)
(* handle_err propagates the error or the handler panicked.                *)
(***************************************************************************)
Handle(ev, endpoints) ==
    LET out == handle(registered_apps, endpoints, ev.bus, ev.source, ev.request) IN
    /\ running
    /\ registered_apps' = out.apps
    /\ last' = [ev |-> ev, endpoints |-> (endpoints \/ out.sends = <<>>),
                res |-> out.res, sends |-> out.sends]
    /\ running' = IF out.panic THEN FALSE
                  ELSE IF out.res.ok THEN TRUE
                  ELSE handle_err(out.res).ok
    /\ repeat' = (ev = last.ev)
    /\ self_registered' =
            IF IsSelfRegistration(ev) THEN self_registered \cup {ev.request.m.app}
            ELSE self_registered
    /\ ref_apps' =
            IF out.res.ok
            THEN handle(ref_apps, endpoints, ev.bus, ev.source, ev.request).apps
            ELSE ref_apps

(***************************************************************************)
(* Spec: the router receives any event and handles it.                     *)
(***************************************************************************)
Receive ==
    \E ev \in Events, endpoints \in BOOLEAN :
        /\ Handle(ev, endpoints)
        /\ UNCHANGED inbox

Next == Receive

Spec == Init /\ [][Next]_vars

(***************************************************************************)
(* SpecBus: events arrive on the buses concurrently and wait in the bus    *)
(* queues; the controller loop takes the head of one queue and handles it. *)
(***************************************************************************)
Pending == Len(inbox["Storm"]) + Len(inbox["Ctl"]) + Len(inbox["Msg"]) + Len(inbox["Rpc"])

Arrive ==
    \E ev \in BusEvents :
        /\ Pending < MaxPending
        /\ inbox' = [inbox EXCEPT ![ev.bus] = Append(@, ev)]
        /\ UNCHANGED <<registered_apps, running, last, repeat, self_registered, ref_apps>>

Process ==
    \E bus \in ServiceBus, endpoints \in BOOLEAN :
        /\ inbox[bus] # <<>>
        /\ Handle(Head(inbox[bus]), endpoints)
        /\ inbox' = [inbox EXCEPT ![bus] = Tail(@)]

NextBus == Arrive \/ Process

SpecBus == Init /\ [][NextBus]_vars

(***************************************************************************)
(* Properties.                                                             *)
(***************************************************************************)
Claimed(ev) == ev.request.m.app
Origin(ev) == ev.source.id

(* C1: every selector in registered_apps was inserted by a handled event   *)
(* RegisterApp(S) that arrived on the Storm bus from the extension whose   *)
(* own selector is S; a step adds a selector only when it handles such an  *)
(* event for that selector.                                                *)
C1_LedgerAntiSpoofing ==
    /\ [](registered_apps \subseteq self_registered)
    /\ [][\A S \in registered_apps' \ registered_apps :
            last'.ev = Event("Storm", StormApp(S), BusMsg_Storm(RegisterApp(S)))]_vars

C1_Witness ==
    /\ IsRegistration(last.ev) /\ ~IsSelfRegistration(last.ev)
    /\ Origin(last.ev) \in registered_apps
    /\ Claimed(last.ev) \notin registered_apps

(* C2: handling RegisterApp(claimed) from an extension whose selector      *)
(* differs from claimed returns a WrongBusSource error, leaves             *)
(* registered_apps as it was and sends nothing.                            *)
C2_MismatchRejected ==
    [][IsRegistration(last'.ev) /\ Claimed(last'.ev) # Origin(last'.ev)
        => /\ ~last'.res.ok
           /\ last'.res.err = "WrongBusSource"
           /\ registered_apps' = registered_apps
           /\ last'.sends = <<>>]_vars

C2_Witness ==
    /\ IsRegistration(last.ev) /\ Claimed(last.ev) # Origin(last.ev)
    /\ ~last.res.ok
    /\ registered_apps # {}

(* C3: handling RegisterApp(S) from the extension with selector S twice in *)
(* a row succeeds both times and the second call leaves registered_apps as *)
(* the first call left it, with S in it.                                   *)
C3_RegisterIdempotent ==
    [][IsSelfRegistration(last.ev) /\ last'.ev = last.ev
        => /\ last.res.ok
           /\ last'.res.ok
           /\ registered_apps' = registered_apps
           /\ Claimed(last.ev) \in registered_apps']_vars

C3_Witness ==
    /\ IsSelfRegistration(last.ev)
    /\ repeat
    /\ last.res.ok
    /\ registered_apps = StormApps

(* C4: a "list apps" request from peer P on the Msg bus produces exactly   *)
(* one send, on the Msg bus, to P, of ActiveApps with the content of       *)
(* registered_apps; nothing is sent on the Storm bus and registered_apps   *)
(* is unchanged.                                                           *)
C4_ListAppsReply ==
    [][IsListApps(last'.ev)
        => /\ last'.sends = <<[bus |-> "Msg", dest |-> Peer(Origin(last'.ev)),
                               msg |-> ActiveApps(registered_apps)]>>
           /\ \A i \in DOMAIN last'.sends : last'.sends[i].bus # "Storm"
           /\ registered_apps' = registered_apps]_vars

C4_Witness ==
    /\ IsListApps(last.ev)
    /\ Origin(last.ev) = NumPeers
    /\ registered_apps # {} /\ registered_apps # StormApps
    /\ Len(last.sends) = 1
    /\ last.sends[1].msg = ActiveApps(registered_apps)

(* C5: an ExtMsg other than RegisterApp received on the Storm bus from the *)
(* extension with selector A produces exactly one send, on the Msg bus, to *)
(* the remote id carried in the message, of the peer-wire case that        *)
(* corresponds to the message's case (Topics to AppTopics, distinct cases  *)
(* to distinct cases), with selector A and the message's data and without  *)
(* the remote id; registered_apps is not written.                          *)
WireCase(c) == IF c = "Topics" THEN "AppTopics" ELSE c

C5_ForwardToPeer ==
    [][IsForward(last'.ev)
        => LET m == last'.ev.request.m IN
           /\ last'.sends = <<[bus |-> "Msg", dest |-> Peer(m.am.remote_id),
                               msg |-> [t |-> WireCase(m.t),
                                        am |-> [app |-> Origin(last'.ev),
                                                data |-> m.am.data]]]>>
           /\ \A c1, c2 \in AddressedCases : c1 # c2 => WireCase(c1) # WireCase(c2)
           /\ registered_apps' = registered_apps]_vars

C5_Witness ==
    /\ IsForward(last.ev)
    /\ last.ev.request.m.t = "Topics"
    /\ last.ev.request.m.am.remote_id = NumPeers
    /\ Origin(last.ev) = NumApps
    /\ last.res.ok
    /\ Len(last.sends) = 1

(* C6: for every event other than a "list apps" request from a peer on    *)
(* the Msg bus, the Result and the sends of handling it are the same from  *)
(* every value of registered_apps; a forwarded ExtMsg is sent to the Msg   *)
(* bus whether or not its sender is registered.                            *)
HandleFrom(apps, l) == handle(apps, l.endpoints, l.ev.bus, l.ev.source, l.ev.request)

C7_DispatchExact ==
    [][~Matched(last'.ev)
        => /\ last'.res = [ok |-> FALSE, err |-> "WrongBus", bus |-> last'.ev.bus,
                           msg |-> BusMsg_fmt(last'.ev.request)]
           /\ last'.sends = <<>>
           /\ registered_apps' = registered_apps]_vars

C7_Witness ==
    /\ last.ev = Event("Storm", Peer(1), BusMsg_Storm(RegisterApp(1)))
    /\ registered_apps = StormApps \ {1}
    /\ ~last.res.ok

(* C8: when handling an event returns an error, registered_apps keeps its  *)
(* value and the router goes on; the events that succeed have the Result,  *)
(* the sends and the registered_apps they have in the run that receives    *)
(* the same events without the failed ones.                                *)
C8_FailureIsolation ==
    [][/\ ~last'.res.ok => registered_apps' = registered_apps
       /\ running'
       /\ ref_apps' = registered_apps'
       /\ last'.res.ok
            => /\ HandleFrom(ref_apps, last').res = last'.res
               /\ HandleFrom(ref_apps, last').sends = last'.sends
               /\ HandleFrom(ref_apps, last').apps = registered_apps']_vars

C8_Witness ==
    /\ ~last.res.ok
    /\ last.res.err = "Esb"
    /\ registered_apps = StormApps
    /\ ref_apps = registered_apps
    /\ running

(* C10: every step leaves in registered_apps the selectors it had.         *)
C10_LedgerMonotonic ==
    [][registered_apps \subseteq registered_apps']_vars

C10_Witness ==
    /\ registered_apps = StormApps
    /\ last.ev.bus = "Rpc"
    /\ Matched(last.ev)

(* C9: with events arriving concurrently on the buses, registered_apps is  *)
(* the set of selectors registered by the events handled so far, and the   *)
(* reply to a "list apps" request carries exactly that set; events still   *)
(* waiting on a bus have no part in it.                                    *)
C9_OneEventAtATime ==
    /\ registered_apps = self_registered
    /\ IsListApps(last.ev)
        => last.sends = <<[bus |-> "Msg", dest |-> Peer(Origin(last.ev)),
                           msg |-> ActiveApps(self_registered)]>>

C9_Witness ==
    /\ IsListApps(last.ev)
    /\ registered_apps # {}
    /\ Len(last.sends) = 1
    /\ \E i \in DOMAIN inbox["Storm"] :
            /\ IsSelfRegistration(inbox["Storm"][i])
            /\ Claimed(inbox["Storm"][i]) \notin last.sends[1].msg.apps

(***************************************************************************)
(* Inbound peer events: a Storm envelope from a peer on the Msg bus, and   *)
(* the peer-wire message its payload decodes to.                           *)
(***************************************************************************)
IsInbound(ev) ==
    /\ ev.bus = "Msg" /\ ev.request.fam = "Bifrost" /\ ev.source.k = "Peer"
    /\ ev.request.m.t = "Message"
    /\ ev.request.m.app = "Storm"

Decoded(ev) == STORM_P2P_UNMARSHALLER(ev.request.m.payload)

IsForwardable(ev) ==
    IsInbound(ev) /\ Decoded(ev).ok /\ Decoded(ev).msg.t \in AppCases

ExtCaseName(w) == CHOOSE c \in AddressedCases : WireCase(c) = w

Unsupported(ev) ==
    [ok |-> FALSE, err |-> "WrongBus", bus |-> ev.bus, msg |-> BusMsg_fmt(ev.request)]

IsClientRequest(ev) ==
    ev.bus = "Rpc" /\ ev.request.fam = "Rpc" /\ ev.source.k = "Client"

IsControl(ev) == ev.bus = "Ctl" /\ ev.request.fam = "Ctl"

(* C12: every request on the Rpc bus from a client returns the error of an *)
(* unsupported request, never Ok, sends nothing and leaves registered_apps *)
(* unchanged.                                                              *)
C12_ClientUnsupported ==
    [][IsClientRequest(last'.ev)
        => /\ ~last'.res.ok
           /\ last'.res = Unsupported(last'.ev)
           /\ last'.sends = <<>>
           /\ registered_apps' = registered_apps]_vars

C12_Witness ==
    /\ IsClientRequest(last.ev)
    /\ ~last.res.ok
    /\ Cardinality(registered_apps) = 1

(* C13: on the Ctl bus Hello from any source returns Ok, every other       *)
(* control message returns the error of an unsupported request; neither    *)
(* sends anything nor changes registered_apps.                             *)
C13_ControlHelloOnly ==
    [][IsControl(last'.ev)
        => /\ last'.ev.request.m.t = "Hello" => last'.res = Ok
           /\ last'.ev.request.m.t # "Hello" => last'.res = Unsupported(last'.ev)
           /\ last'.sends = <<>>
           /\ registered_apps' = registered_apps]_vars

C13_Witness ==
    /\ IsControl(last.ev)
    /\ last.ev.request.m.t # "Hello"
    /\ last.ev.source.k = "Peer"
    /\ ~last.res.ok
    /\ registered_apps # {}

(* C14: a Storm envelope from a peer whose payload fails to decode returns *)
(* the decode error, sends nothing, leaves registered_apps unchanged and   *)
(* leaves the router running.                                              *)
C14_DecodeFailureDropped ==
    [][IsInbound(last'.ev) /\ ~Decoded(last'.ev).ok
        => /\ last'.res = [ok |-> FALSE, err |-> "Unmarshall"]
           /\ last'.sends = <<>>
           /\ registered_apps' = registered_apps
           /\ running']_vars

C14_Witness ==
    /\ IsInbound(last.ev)
    /\ last.ev.request.m.payload = <<"Unknown">>
    /\ ~last.res.ok
    /\ registered_apps # {}
    /\ running

(* C15: for every ExtMsg x other than RegisterApp sent by the extension    *)
(* with selector A, the peer-wire message the router sends, put on the     *)
(* wire and mapped inbound with x's remote id as the arrival peer, gives   *)
(* (A, x) again; ExtMsg of distinct cases have peer-wire forms of distinct *)
(* cases.                                                                  *)
C15_BridgeLossless ==
    IsForward(last.ev)
        => LET x == last.ev.request.m
               A == Origin(last.ev)
               back == STORM_P2P_UNMARSHALLER(Marshall(last.sends[1].msg)) IN
           /\ Len(last.sends) = 1
           /\ back.ok
           /\ storm_ext_msg(back.msg, x.am.remote_id) = [ok |-> TRUE, app |-> A, msg |-> x]
           /\ \A y \in ExtMsg :
                y.t \notin {"RegisterApp", x.t}
                    => p2p_message(y, A).v.t # last.sends[1].msg.t

C15_Witness ==
    /\ IsForward(last.ev)
    /\ last.ev.request.m.t = "Decline"
    /\ Origin(last.ev) = NumApps
    /\ last.ev.request.m.am.remote_id = 1
    /\ Len(last.sends) = 1
    /\ last.sends[1].msg.t = "Decline"

(***************************************************************************)
(* The selectors an error names: the one of its source and the one its     *)
(* displayed message shows.                                                *)
(***************************************************************************)
NamesSelector(res, a) ==
    res.source = StormApp(a) \/ res.msg = <<"register_app", a>>

(* C16: the error returned for RegisterApp(claimed) from an extension      *)
(* whose own selector differs from claimed names both the claimed selector *)
(* and the selector of the origin.                                         *)
C16_MismatchNamesBoth ==
    IsRegistration(last.ev) /\ Claimed(last.ev) # Origin(last.ev)
        => /\ ~last.res.ok
           /\ NamesSelector(last.res, Claimed(last.ev))
           /\ NamesSelector(last.res, Origin(last.ev))

(***************************************************************************)
(* A message from a peer on the Msg bus that is not a Storm envelope.      *)
(***************************************************************************)
IsNonStormPeerMsg(ev) ==
    /\ ev.bus = "Msg" /\ ev.request.fam = "Bifrost" /\ ev.source.k = "Peer"
    /\ ~(ev.request.m.t = "Message" /\ ev.request.m.app = "Storm")

(* C17: every WrongBus error names the bus the rejected event arrived on;  *)
(* a message from a peer on the Msg bus that is not a Storm envelope is    *)
(* rejected with the WrongBus error naming the Msg bus and the message,    *)
(* with no send and registered_apps unchanged.                             *)
C17_WrongBusNamesArrivalBus ==
    [][/\ ~last'.res.ok /\ last'.res.err = "WrongBus" => last'.res.bus = last'.ev.bus
       /\ IsNonStormPeerMsg(last'.ev)
            => /\ last'.res = [ok |-> FALSE, err |-> "WrongBus", bus |-> "Msg",
                               msg |-> BusMsg_fmt(last'.ev.request)]
               /\ last'.sends = <<>>
               /\ registered_apps' = registered_apps]_vars

(* C18: an inbound peer message for application selector X is sent on the *)
(* Storm bus to X only if X is in registered_apps when the message is      *)
(* handled, that is only after a successful RegisterApp(X) from X.         *)
C18_RegistrationPrecedesRouting ==
    IsInbound(last.ev) /\ last.res.ok
        => \A i \in DOMAIN last.sends :
                last.sends[i].bus = "Storm"
                    => /\ last.sends[i].dest.id \in registered_apps
                       /\ last.sends[i].dest.id \in self_registered

(***************************************************************************)
(* Inbound peer messages the router neither forwards nor answers: an       *)
(* ActiveApps report and the transfer messages.                            *)
(***************************************************************************)
IsLeftAlone(ev) ==
    /\ IsInbound(ev) /\ Decoded(ev).ok
    /\ Decoded(ev).msg.t \in {"ActiveApps"} \cup BulkCases

(* C19: an ActiveApps report from a peer and every transfer message        *)
(* (pull, push, reject of containers or chunks) return Ok, send nothing    *)
(* and leave registered_apps unchanged.                                    *)
C19_ReportsAndTransfersIgnored ==
    [][IsLeftAlone(last'.ev)
        => /\ last'.res = Ok
           /\ last'.sends = <<>>
           /\ registered_apps' = registered_apps]_vars

C19_Witness ==
    /\ IsLeftAlone(last.ev)
    /\ Decoded(last.ev).msg = ActiveApps(StormApps)
    /\ registered_apps # StormApps
    /\ last.res.ok
    /\ last.sends = <<>>

(* C20: no event makes the router reach the unreachable!() of remote_id or *)
(* p2p_message: the handler never panics, and a RegisterApp is consumed by *)
(* the registration arm, which sends nothing.                              *)
C20_UnreachableNeverReached ==
    /\ running
    /\ last.res # [ok |-> FALSE, err |-> "unreachable!"]
    /\ IsRegistration(last.ev) => last.sends = <<>>

C20_Witness ==
    /\ IsRegistration(last.ev)
    /\ ~IsSelfRegistration(last.ev)
    /\ registered_apps = {}
    /\ last.sends = <<>>
    /\ running

====
